---- MODULE Spec2Model ----
(***************************************************************************)
(* Model of watcher.py: the Nginx log watcher for blue/green deployments.  *)
(* One line of the access log is parsed, fed to the failover check and to  *)
(* the sliding-window error-rate check; both hand their alerts to          *)
(* send_slack_alert, which applies the maintenance switch and the          *)
(* per-type cooldown before posting to the Slack webhook.                  *)
(***************************************************************************)
EXTENDS Integers, Sequences, FiniteSets, TLC

\* ---- bounds of the model ----
MaxWindowSize == 3      \* WINDOW_SIZE is drawn from 1..MaxWindowSize
MaxCooldown == 2        \* ALERT_COOLDOWN_SEC is drawn from 0..MaxCooldown
MaxTime == 3            \* the clock runs over 0..MaxTime (seconds)
MaxDelay == 1           \* seconds a call of requests.post may take
MaxRateWindow == 20     \* the largest WINDOW_SIZE of RateSpec

\* ---- values ----
None == "None"
NoTime == -1                           \* the None of last_alert_times: no alert yet
Pools == {"blue", "green"}
NoMatch == "no_match"                  \* re.search found no pool= token
PoolTokens == Pools \cup {NoMatch}
\* <<status, upstream_status>> of a line; 0: no upstream_status= token
StatusPairs == {<<200, 0>>, <<500, 0>>, <<200, 502>>}
Thresholds == {50}                     \* values of ERROR_RATE_THRESHOLD (percent)
RateThresholds == {55}                 \* its values in RateSpec
AlertTypes == {"failover", "error_rate"}

Min(a, b) == IF a <= b THEN a ELSE b

VARIABLES
    SLACK_WEBHOOK_URL,     \* TRUE iff the environment sets a webhook URL
    ERROR_RATE_THRESHOLD,
    WINDOW_SIZE,
    ALERT_COOLDOWN_SEC,
    MAINTENANCE_MODE,
    last_pool,             \* None or a pool name
    request_window,        \* deque(maxlen=WINDOW_SIZE), oldest record first
    last_alert_times,      \* alert type -> NoTime or time of the last sent alert
    now,                   \* datetime.now(), in seconds
    parsed,                \* what parse_log_line returned in the last iteration of the loop
    out,                   \* what the last iteration of the loop printed
    running                \* TRUE while the loop of tail_log_file is alive

config == <<SLACK_WEBHOOK_URL, ERROR_RATE_THRESHOLD, WINDOW_SIZE,
            ALERT_COOLDOWN_SEC, MAINTENANCE_MODE>>
vars == <<SLACK_WEBHOOK_URL, ERROR_RATE_THRESHOLD, WINDOW_SIZE,
          ALERT_COOLDOWN_SEC, MAINTENANCE_MODE, last_pool, request_window,
          last_alert_times, now, parsed, out, running>>

\* ---- the lines of the log ----
\* A line is given by what the regular expressions of parse_log_line find in it.
Line(pool, status, upstream_status, request_time_ok) ==
    [pool |-> pool, status |-> status, upstream_status |-> upstream_status,
     request_time_ok |-> request_time_ok]

Lines == {Line(p, st[1], st[2], TRUE) : p \in PoolTokens, st \in StatusPairs}
            \cup {Line("blue", 200, 0, FALSE)}

\* request_time=1.2.3 matches [\d\.]+ and makes float() raise: the except
\* branch returns None.  A missing pool= token gives pool 'unknown'.
NoRecord == [pool |-> None, is_5xx |-> FALSE]    \* the None parse_log_line returns
NoLine == [pool |-> "no_line", is_5xx |-> FALSE]  \* readline returned nothing

parse_log_line(line) ==
    IF ~line.request_time_ok
    THEN NoRecord
    ELSE [pool   |-> IF line.pool = NoMatch THEN "unknown" ELSE line.pool,
          is_5xx |-> (line.status >= 500 \/ line.upstream_status >= 500)]

\* ---- the state the functions work on ----
\* The functions below take and return the mutable state as a record s;
\* s.running turns FALSE when an exception leaves a function, and the callers
\* then skip the rest of their bodies.
State == [last_pool |-> last_pool, request_window |-> request_window,
          last_alert_times |-> last_alert_times, now |-> now, out |-> <<>>,
          running |-> running]

\* One printed line: the kind of message, the alert type, the pools the
\* message names and the time of the call that printed it.
Event(kind, alert_type, from, to, at) ==
    [kind |-> kind, type |-> alert_type, from |-> from, to |-> to, at |-> at]

\* send_slack_alert that never finds an alert in cooldown.
send_slack_alert_NoCooldown(s, alert_type, from, to, ok, d) ==
    IF ~SLACK_WEBHOOK_URL \/ MAINTENANCE_MODE
    THEN [s EXCEPT !.out = Append(@, Event("suppressed", alert_type, from, to, s.now))]
    ELSE IF /\ s.last_alert_times[alert_type] # NoTime
            /\ FALSE
    THEN [s EXCEPT !.out = Append(@, Event("cooldown", alert_type, from, to, s.now))]
    ELSE IF ok
    THEN [s EXCEPT !.now = s.now + d,
                   !.last_alert_times[alert_type] = s.now + d,
                   !.out = Append(@, Event("sent", alert_type, from, to, s.now))]
    ELSE [s EXCEPT !.now = s.now + d,
                   !.out = Append(@, Event("failed", alert_type, from, to, s.now))]

\* send_slack_alert whose cooldown ends one second early.
send_slack_alert_ShortCooldown(s, alert_type, from, to, ok, d) ==
    IF ~SLACK_WEBHOOK_URL \/ MAINTENANCE_MODE
    THEN [s EXCEPT !.out = Append(@, Event("suppressed", alert_type, from, to, s.now))]
    ELSE IF /\ s.last_alert_times[alert_type] # NoTime
            /\ s.now - s.last_alert_times[alert_type] < ALERT_COOLDOWN_SEC - 1
    THEN [s EXCEPT !.out = Append(@, Event("cooldown", alert_type, from, to, s.now))]
    ELSE IF ok
    THEN [s EXCEPT !.now = s.now + d,
                   !.last_alert_times[alert_type] = s.now + d,
                   !.out = Append(@, Event("sent", alert_type, from, to, s.now))]
    ELSE [s EXCEPT !.now = s.now + d,
                   !.out = Append(@, Event("failed", alert_type, from, to, s.now))]

\* send_slack_alert that assigns last_alert_times before the post, failed or not.
send_slack_alert_RecordsFailure(s, alert_type, from, to, ok, d) ==
    IF ~SLACK_WEBHOOK_URL \/ MAINTENANCE_MODE
    THEN [s EXCEPT !.out = Append(@, Event("suppressed", alert_type, from, to, s.now))]
    ELSE IF /\ s.last_alert_times[alert_type] # NoTime
            /\ s.now - s.last_alert_times[alert_type] < ALERT_COOLDOWN_SEC
    THEN [s EXCEPT !.out = Append(@, Event("cooldown", alert_type, from, to, s.now))]
    ELSE IF ok
    THEN [s EXCEPT !.now = s.now + d,
                   !.last_alert_times[alert_type] = s.now + d,
                   !.out = Append(@, Event("sent", alert_type, from, to, s.now))]
    ELSE [s EXCEPT !.now = s.now + d,
                   !.last_alert_times[alert_type] = s.now,
                   !.out = Append(@, Event("failed", alert_type, from, to, s.now))]

\* send_slack_alert that tests MAINTENANCE_MODE only for an alert in cooldown.
send_slack_alert_CooldownFirst(s, alert_type, from, to, ok, d) ==
    IF ~SLACK_WEBHOOK_URL \/ (MAINTENANCE_MODE /\ s.last_alert_times[alert_type] # NoTime)
    THEN [s EXCEPT !.out = Append(@, Event("suppressed", alert_type, from, to, s.now))]
    ELSE IF /\ s.last_alert_times[alert_type] # NoTime
            /\ s.now - s.last_alert_times[alert_type] < ALERT_COOLDOWN_SEC
    THEN [s EXCEPT !.out = Append(@, Event("cooldown", alert_type, from, to, s.now))]
    ELSE IF ok
    THEN [s EXCEPT !.now = s.now + d,
                   !.last_alert_times[alert_type] = s.now + d,
                   !.out = Append(@, Event("sent", alert_type, from, to, s.now))]
    ELSE [s EXCEPT !.now = s.now + d,
                   !.out = Append(@, Event("failed", alert_type, from, to, s.now))]

\* send_slack_alert without the except clause: a failed post raises.
send_slack_alert_Raises(s, alert_type, from, to, ok, d) ==
    IF ~SLACK_WEBHOOK_URL \/ MAINTENANCE_MODE
    THEN [s EXCEPT !.out = Append(@, Event("suppressed", alert_type, from, to, s.now))]
    ELSE IF /\ s.last_alert_times[alert_type] # NoTime
            /\ s.now - s.last_alert_times[alert_type] < ALERT_COOLDOWN_SEC
    THEN [s EXCEPT !.out = Append(@, Event("cooldown", alert_type, from, to, s.now))]
    ELSE IF ok
    THEN [s EXCEPT !.now = s.now + d,
                   !.last_alert_times[alert_type] = s.now + d,
                   !.out = Append(@, Event("sent", alert_type, from, to, s.now))]
    ELSE [s EXCEPT !.now = s.now + d,
                   !.running = FALSE,
                   !.out = Append(@, Event("failed", alert_type, from, to, s.now))]

\* send_slack_alert with one cooldown for all alert types.
send_slack_alert_SharedCooldown(s, alert_type, from, to, ok, d) ==
    IF ~SLACK_WEBHOOK_URL \/ MAINTENANCE_MODE
    THEN [s EXCEPT !.out = Append(@, Event("suppressed", alert_type, from, to, s.now))]
    ELSE IF \E a \in AlertTypes :
            /\ s.last_alert_times[a] # NoTime
            /\ s.now - s.last_alert_times[a] < ALERT_COOLDOWN_SEC
    THEN [s EXCEPT !.out = Append(@, Event("cooldown", alert_type, from, to, s.now))]
    ELSE IF ok
    THEN [s EXCEPT !.now = s.now + d,
                   !.last_alert_times[alert_type] = s.now + d,
                   !.out = Append(@, Event("sent", alert_type, from, to, s.now))]
    ELSE [s EXCEPT !.now = s.now + d,
                   !.out = Append(@, Event("failed", alert_type, from, to, s.now))]

\* send_slack_alert whose cooldown never ends.
send_slack_alert_OncePerType(s, alert_type, from, to, ok, d) ==
    IF ~SLACK_WEBHOOK_URL \/ MAINTENANCE_MODE
    THEN [s EXCEPT !.out = Append(@, Event("suppressed", alert_type, from, to, s.now))]
    ELSE IF /\ s.last_alert_times[alert_type] # NoTime
            /\ ALERT_COOLDOWN_SEC > 0
    THEN [s EXCEPT !.out = Append(@, Event("cooldown", alert_type, from, to, s.now))]
    ELSE IF ok
    THEN [s EXCEPT !.now = s.now + d,
                   !.last_alert_times[alert_type] = s.now + d,
                   !.out = Append(@, Event("sent", alert_type, from, to, s.now))]
    ELSE [s EXCEPT !.now = s.now + d,
                   !.out = Append(@, Event("failed", alert_type, from, to, s.now))]

\* send_slack_alert that restarts the cooldown when it finds an alert in cooldown.
send_slack_alert_CooldownExtends(s, alert_type, from, to, ok, d) ==
    IF ~SLACK_WEBHOOK_URL \/ MAINTENANCE_MODE
    THEN [s EXCEPT !.out = Append(@, Event("suppressed", alert_type, from, to, s.now))]
    ELSE IF /\ s.last_alert_times[alert_type] # NoTime
            /\ s.now - s.last_alert_times[alert_type] < ALERT_COOLDOWN_SEC
    THEN [s EXCEPT !.last_alert_times[alert_type] = s.now,
                   !.out = Append(@, Event("cooldown", alert_type, from, to, s.now))]
    ELSE IF ok
    THEN [s EXCEPT !.now = s.now + d,
                   !.last_alert_times[alert_type] = s.now + d,
                   !.out = Append(@, Event("sent", alert_type, from, to, s.now))]
    ELSE [s EXCEPT !.now = s.now + d,
                   !.out = Append(@, Event("failed", alert_type, from, to, s.now))]

\* send_slack_alert(message, alert_type); the message is given by the pools
\* it names.  ok: requests.post and raise_for_status succeed; d: the seconds
\* the post takes.
send_slack_alert(s, alert_type, from, to, ok, d) ==
    IF ~SLACK_WEBHOOK_URL \/ MAINTENANCE_MODE
    THEN [s EXCEPT !.out = Append(@, Event("suppressed", alert_type, from, to, s.now))]
    ELSE IF /\ s.last_alert_times[alert_type] # NoTime
            /\ s.now - s.last_alert_times[alert_type] < ALERT_COOLDOWN_SEC
    THEN [s EXCEPT !.out = Append(@, Event("cooldown", alert_type, from, to, s.now))]
    ELSE IF ok
    THEN [s EXCEPT !.now = s.now + d,
                   !.last_alert_times[alert_type] = s.now + d,
                   !.out = Append(@, Event("sent", alert_type, from, to, s.now))]
    ELSE [s EXCEPT !.now = s.now + d,
                   !.out = Append(@, Event("failed", alert_type, from, to, s.now))]

\* check_failover without the return on pool 'unknown'.
check_failover_UnknownIsPool(s, parsed_data, ok, d) ==
    LET current_pool == parsed_data.pool IN
    IF s.last_pool = None
    THEN [s EXCEPT !.last_pool = current_pool,
                   !.out = Append(@, Event("initial_pool", None, None, current_pool, s.now))]
    ELSE IF current_pool # s.last_pool
    THEN LET t == send_slack_alert(s, "failover", s.last_pool, current_pool, ok, d) IN
         IF t.running THEN [t EXCEPT !.last_pool = current_pool] ELSE t
    ELSE s

\* check_failover without the branch for last_pool None.
check_failover_NoInitial(s, parsed_data, ok, d) ==
    LET current_pool == parsed_data.pool IN
    IF current_pool = "unknown"
    THEN s
    ELSE IF current_pool # s.last_pool
    THEN LET t == send_slack_alert(s, "failover", s.last_pool, current_pool, ok, d) IN
         IF t.running THEN [t EXCEPT !.last_pool = current_pool] ELSE t
    ELSE s

\* check_failover that forgets to assign last_pool after the alert.
check_failover_KeepPool(s, parsed_data, ok, d) ==
    LET current_pool == parsed_data.pool IN
    IF current_pool = "unknown"
    THEN s
    ELSE IF s.last_pool = None
    THEN [s EXCEPT !.last_pool = current_pool,
                   !.out = Append(@, Event("initial_pool", None, None, current_pool, s.now))]
    ELSE IF current_pool # s.last_pool
    THEN send_slack_alert(s, "failover", s.last_pool, current_pool, ok, d)
    ELSE s

\* check_failover that assigns last_pool only when the alert was sent.
check_failover_UpdateOnSent(s, parsed_data, ok, d) ==
    LET current_pool == parsed_data.pool IN
    IF current_pool = "unknown"
    THEN s
    ELSE IF s.last_pool = None
    THEN [s EXCEPT !.last_pool = current_pool,
                   !.out = Append(@, Event("initial_pool", None, None, current_pool, s.now))]
    ELSE IF current_pool # s.last_pool
    THEN LET t == send_slack_alert(s, "failover", s.last_pool, current_pool, ok, d) IN
         IF t.out[Len(t.out)].kind = "sent"
         THEN [t EXCEPT !.last_pool = current_pool] ELSE t
    ELSE s

\* check_failover that assigns last_pool only the first time.
check_failover_InitialOnly(s, parsed_data, ok, d) ==
    LET current_pool == parsed_data.pool IN
    IF current_pool = "unknown"
    THEN s
    ELSE IF s.last_pool = None
    THEN [s EXCEPT !.last_pool = current_pool,
                   !.out = Append(@, Event("initial_pool", None, None, current_pool, s.now))]
    ELSE IF current_pool # s.last_pool
    THEN send_slack_alert(s, "failover", s.last_pool, current_pool, ok, d)
    ELSE s

check_failover(s, parsed_data, ok, d) ==
    LET current_pool == parsed_data.pool IN
    IF current_pool = "unknown"
    THEN s
    ELSE IF s.last_pool = None
    THEN [s EXCEPT !.last_pool = current_pool,
                   !.out = Append(@, Event("initial_pool", None, None, current_pool, s.now))]
    ELSE IF current_pool # s.last_pool
    THEN LET t == send_slack_alert(s, "failover", s.last_pool, current_pool, ok, d) IN
         IF t.running THEN [t EXCEPT !.last_pool = current_pool] ELSE t
    ELSE s

\* A deque without maxlen: nothing is dropped.
append_Unbounded(window, item) == Append(window, item)

\* A full deque that drops its rightmost item instead.
append_DropNewest(window, item) ==
    IF Len(window) >= WINDOW_SIZE
    THEN Append(SubSeq(window, 1, Len(window) - 1), item)
    ELSE Append(window, item)

\* deque.append on a deque with maxlen: a full deque drops its leftmost item.
append(window, item) ==
    IF Len(window) >= WINDOW_SIZE
    THEN Append(Tail(window), item)
    ELSE Append(window, item)

error_count(window) ==
    Cardinality({i \in 1..Len(window) : window[i]})

\* ---- error_rate = (error_count / len(request_window)) * 100 ----
\* Python's float is the IEEE-754 double: every operation returns the exact
\* result rounded to 53 significant bits, ties to the even neighbour.  A
\* positive double is modelled by its significant bits (most significant
\* first, at most Precision of them) and the binary exponent of the last one:
\* its value is m * 2^e.  The bits are handled in limbs of LimbBits bits, for
\* the integers of the model checker have 32 bits.
Precision == 53
LimbBits == 16

Zero == [m |-> <<>>, e |-> 0]

Bit(b) == IF b THEN 1 ELSE 0

Zeros(n) == [i \in 1..n |-> 0]

RECURSIVE Pow2(_)
Pow2(n) == IF n = 0 THEN 1 ELSE 2 * Pow2(n - 1)

\* 2^n modulo d
RECURSIVE Pow2Mod(_, _)
Pow2Mod(n, d) ==
    IF n = 0 THEN 1 % d
    ELSE LET h == Pow2Mod(n \div 2, d) IN (h * h * Pow2(n % 2)) % d

RECURSIVE ToBits(_)
ToBits(n) == IF n = 0 THEN <<>> ELSE Append(ToBits(n \div 2), n % 2)

\* the value of a numeral of at most LimbBits bits
RECURSIVE Value(_)
Value(bits) ==
    IF bits = <<>> THEN 0
    ELSE 2 * Value(SubSeq(bits, 1, Len(bits) - 1)) + bits[Len(bits)]

\* the numeral without its leading zeros
Strip(bits) ==
    LET ones == {i \in 1..Len(bits) : bits[i] = 1} IN
    IF ones = {} THEN <<>>
    ELSE SubSeq(bits, CHOOSE i \in ones : \A j \in ones : i <= j, Len(bits))

\* a > b for two numerals without leading zeros
Greater(a, b) ==
    IF Len(a) # Len(b) THEN Len(a) > Len(b)
    ELSE \E i \in 1..Len(a) :
            /\ a[i] > b[i]
            /\ \A j \in 1..(i - 1) : a[j] = b[j]

\* bits + 1 (one bit longer when every bit is 1)
Increment(bits) ==
    LET zeros == {i \in 1..Len(bits) : bits[i] = 0} IN
    IF zeros = {} THEN <<1>> \o Zeros(Len(bits))
    ELSE LET last == CHOOSE i \in zeros : \A j \in zeros : i >= j IN
         [i \in 1..Len(bits) |->
            IF i < last THEN bits[i] ELSE IF i = last THEN 1 ELSE 0]

\* the limbs of a numeral, least significant first
Limbs(bits) ==
    [j \in 1..((Len(bits) + LimbBits - 1) \div LimbBits) |->
        Value(SubSeq(bits,
                     IF Len(bits) - LimbBits * j + 1 > 1
                     THEN Len(bits) - LimbBits * j + 1 ELSE 1,
                     Len(bits) - LimbBits * (j - 1)))]

\* limbs * c + carry, for a small integer c
RECURSIVE TimesLimbs(_, _, _)
TimesLimbs(limbs, c, carry) ==
    IF limbs = <<>> THEN (IF carry = 0 THEN <<>> ELSE <<carry>>)
    ELSE LET t == limbs[1] * c + carry IN
         <<t % Pow2(LimbBits)>>
             \o TimesLimbs(Tail(limbs), c, t \div Pow2(LimbBits))

\* the numeral of a sequence of limbs with a positive last limb
Numeral(limbs) ==
    LET top == ToBits(limbs[Len(limbs)])
        n   == Len(top) + LimbBits * (Len(limbs) - 1) IN
    [i \in 1..n |->
        IF i <= Len(top) THEN top[i]
        ELSE (limbs[(n - i) \div LimbBits + 1]
                 \div Pow2((n - i) % LimbBits)) % 2]

\* The numeral bits * 2^e plus a rest in [0, 1) of its last place, rounded to
\* the nearest numeral of that place: half and above tell how the rest
\* compares with 1/2.
Round(bits, e, half, above) ==
    LET up == half /\ (above \/ bits[Len(bits)] = 1)
        r  == IF up THEN Increment(bits) ELSE bits IN
    IF Len(r) > Precision
    THEN [m |-> SubSeq(r, 1, Precision), e |-> e + 1]
    ELSE [m |-> r, e |-> e]

\* what is left of r / d (0 <= r < d) after n bits of its binary expansion
Remainder(r, d, n) == (r * Pow2Mod(n, d)) % d

\* the smallest s with a * 2^s >= b
RECURSIVE Shift(_, _)
Shift(a, b) == IF a >= b THEN 0 ELSE 1 + Shift(2 * a, b)

\* a / b for integers 0 <= a <= b, b > 0 (int / int is correctly rounded)
float_div(a, b) ==
    IF a = 0 THEN Zero
    ELSE LET sh   == Shift(a, b)
             r    == a * Pow2(sh) - b
             bits == [i \in 1..Precision |->
                        IF i = 1 THEN 1
                        ELSE Bit(2 * Remainder(r, b, i - 2) >= b)]
             rem  == Remainder(r, b, Precision - 1) IN
         Round(bits, 0 - sh - (Precision - 1), 2 * rem >= b, 2 * rem > b)

\* x * c for a double x and a small positive integer c
float_mul(x, c) ==
    IF x = Zero THEN Zero
    ELSE LET p    == Numeral(TimesLimbs(Limbs(x.m), c, 0))
             drop == Len(p) - Precision
             rest == SubSeq(p, Precision + 1, Len(p)) IN
         IF drop <= 0 THEN [m |-> p, e |-> x.e]
         ELSE Round(SubSeq(p, 1, Precision), x.e + drop,
                    rest[1] = 1, Strip(Tail(rest)) # <<>>)

\* x > t for a double x and a float t of integer value
float_gt(x, t) ==
    IF x = Zero THEN FALSE
    ELSE Greater(Strip(x.m \o Zeros(IF x.e > 0 THEN x.e ELSE 0)),
                 ToBits(t) \o Zeros(IF x.e < 0 THEN 0 - x.e ELSE 0))

\* (error_count / len(request_window)) * 100
error_rate(count, len) == float_mul(float_div(count, len), 100)

\* error_rate > ERROR_RATE_THRESHOLD for every threshold, window length and
\* error count of the model, computed once.  ERROR_RATE_THRESHOLD is
\* float(os.getenv(...)): the thresholds of the model have integer values.
rate_above ==
    [t \in Thresholds \cup RateThresholds |->
        [len \in 1..(MaxWindowSize + MaxRateWindow) |->
            [count \in 0..len |-> float_gt(error_rate(count, len), t)]]]

rate_above_threshold(window) ==
    rate_above[ERROR_RATE_THRESHOLD][Len(window)][error_count(window)]

\* check_error_rate without the return on a window that is not full.
check_error_rate_NoMinimum(s, parsed_data, ok, d) ==
    LET t == [s EXCEPT !.request_window = append(@, parsed_data.is_5xx)] IN
    IF rate_above_threshold(t.request_window)
    THEN send_slack_alert(t, "error_rate", None, parsed_data.pool, ok, d)
    ELSE t

\* Of the records in the window only is_5xx is ever read: the window is
\* modelled by the is_5xx of its records.
check_error_rate(s, parsed_data, ok, d) ==
    LET t == [s EXCEPT !.request_window = append(@, parsed_data.is_5xx)] IN
    IF Len(t.request_window) < WINDOW_SIZE
    THEN t
    ELSE IF rate_above_threshold(t.request_window)
    THEN send_slack_alert(t, "error_rate", None, parsed_data.pool, ok, d)
    ELSE t

\* The loop body without the test of parsed: None['pool'] raises.
process_line_NoneUnchecked(s, line, ok1, d1, ok2, d2) ==
    LET parsed_data == parse_log_line(line) IN
    IF parsed_data # NoRecord
    THEN LET t == check_failover(s, parsed_data, ok1, d1) IN
         IF t.running THEN check_error_rate(t, parsed_data, ok2, d2) ELSE t
    ELSE [s EXCEPT !.running = FALSE,
                   !.out = Append(@, Event("parse_error", None, None, None, s.now))]

\* The body of the loop of tail_log_file for one line that was read.
process_line(s, line, ok1, d1, ok2, d2) ==
    LET parsed_data == parse_log_line(line) IN
    IF parsed_data # NoRecord
    THEN LET t == check_failover(s, parsed_data, ok1, d1) IN
         IF t.running THEN check_error_rate(t, parsed_data, ok2, d2) ELSE t
    ELSE [s EXCEPT !.out = Append(@, Event("parse_error", None, None, None, s.now))]

\* ---- initial state ----
Init ==
    /\ SLACK_WEBHOOK_URL \in BOOLEAN
    /\ ERROR_RATE_THRESHOLD \in Thresholds
    /\ WINDOW_SIZE \in 1..MaxWindowSize
    /\ ALERT_COOLDOWN_SEC \in 0..MaxCooldown
    /\ MAINTENANCE_MODE \in BOOLEAN
    /\ last_pool = None
    /\ request_window = <<>>
    /\ last_alert_times = [a \in AlertTypes |-> NoTime]
    /\ now = 0
    /\ parsed = NoLine
    /\ out = <<>>
    /\ running = TRUE

\* ---- actions ----
\* The outcomes of one call of requests.post: <<ok, seconds taken>>.
NoPost == <<TRUE, 0>>
PostOutcomes == BOOLEAN \X (0..MaxDelay)

\* requests.post is called for alert_type while s was computed.
Posted(s, alert_type) ==
    \E i \in 1..Len(s.out) :
        s.out[i].type = alert_type /\ s.out[i].kind \in {"sent", "failed"}

\* The outcomes to enumerate for the failover post of a line, and for its
\* error_rate post once the failover post had outcome o1: a post that is not
\* made has no outcome.
FailoverOutcomes(line) ==
    IF Posted(process_line(State, line, TRUE, 0, TRUE, 0), "failover")
    THEN PostOutcomes ELSE {NoPost}

ErrorRateOutcomes(line, o1) ==
    IF Posted(process_line(State, line, o1[1], o1[2], TRUE, 0), "error_rate")
    THEN PostOutcomes ELSE {NoPost}

\* readline returned a line: parse it and run both checks.
ProcessLine(line, ok1, d1, ok2, d2) ==
    /\ running
    /\ \E s \in {process_line(State, line, ok1, d1, ok2, d2)} :
        /\ s.now <= MaxTime
        /\ last_pool' = s.last_pool
        /\ request_window' = s.request_window
        /\ last_alert_times' = s.last_alert_times
        /\ now' = s.now
        /\ parsed' = parse_log_line(line)
        /\ out' = s.out
        /\ running' = s.running
    /\ UNCHANGED config

\* readline returned nothing: time.sleep, the clock moves on.
Sleep ==
    /\ running
    /\ now < MaxTime
    /\ now' = now + 1
    /\ parsed' = NoLine
    /\ out' = <<>>
    /\ UNCHANGED <<config, last_pool, request_window, last_alert_times, running>>

Next ==
    \/ \E line \in Lines :
          \E o1 \in FailoverOutcomes(line) :
            \E o2 \in ErrorRateOutcomes(line, o1) :
              ProcessLine(line, o1[1], o1[2], o2[1], o2[2])
    \/ Sleep

Spec == Init /\ [][Next]_vars

\* ---- what the properties talk about ----
Events == {out[i] : i \in 1..Len(out)}
Events_next == {out'[i] : i \in 1..Len(out')}

\* The calls of send_slack_alert (the alert candidates handed to the gate)
\* and, among them, those that reached requests.post.
IsCall(e, alert_type) ==
    e.type = alert_type /\ e.kind \in {"suppressed", "cooldown", "sent", "failed"}
IsPost(e, alert_type) ==
    e.type = alert_type /\ e.kind \in {"sent", "failed"}

\* The records parse_log_line returns.
Records == {parse_log_line(line) : line \in Lines} \ {NoRecord}

TypeOK ==
    /\ Len(request_window) <= MaxWindowSize
    /\ now \in 0..MaxTime

\* ---- C1 ----
\* C1: the window never holds more than WINDOW_SIZE records, and every push
\* takes its length from n to min(n + 1, WINDOW_SIZE): WINDOW_SIZE after
\* WINDOW_SIZE pushes and after every further push.
C1_WindowLength ==
    /\ [](Len(request_window) <= WINDOW_SIZE)
    /\ [][parsed' \in Records =>
            Len(request_window') = Min(Len(request_window) + 1, WINDOW_SIZE)]_vars

\* A window of size 1 is full after a failover alert, which takes two pushes
\* at least.
C1_Witness ==
    /\ WINDOW_SIZE = 1
    /\ Len(request_window) = WINDOW_SIZE
    /\ \E e \in Events : IsCall(e, "failover")

\* ---- C2 ----
\* C2: an error_rate alert is handed to send_slack_alert only by a push that
\* leaves the window with exactly WINDOW_SIZE records; while the window holds
\* fewer, no error_rate alert is attempted, whatever the records are.
C2_RateOnlyOnFullWindow ==
    (\E e \in Events : IsCall(e, "error_rate")) => Len(request_window) = WINDOW_SIZE

\* A window one short of full that holds only errors, and no alert.
C2_Witness ==
    /\ Len(request_window) = WINDOW_SIZE - 1
    /\ Len(request_window) >= 1
    /\ \A i \in 1..Len(request_window) : request_window[i]
    /\ ~\E e \in Events : IsCall(e, "error_rate")

\* ---- C3 ----
\* C3: a record of pool 'unknown' leaves last_pool as it is, hands no failover
\* alert to send_slack_alert and initializes nothing, whatever last_pool is;
\* the record is appended to the window like any other.
C3_UnknownPool ==
    [][(parsed' \in Records /\ parsed'.pool = "unknown") =>
          /\ last_pool' = last_pool
          /\ ~\E e \in Events_next : IsCall(e, "failover") \/ e.kind = "initial_pool"
          /\ request_window' = append(request_window, parsed'.is_5xx)
          /\ parsed'.is_5xx => error_count(request_window') >= 1]_vars

\* An error_rate alert that names pool 'unknown' while a pool is tracked.
C3_Witness ==
    /\ last_pool \in Pools
    /\ \E e \in Events : IsCall(e, "error_rate") /\ e.to = "unknown"

\* ---- C4 ----
\* C4: with last_pool None, a record of a pool P other than 'unknown' sets
\* last_pool to P and hands no failover alert to send_slack_alert.
C4_FirstPoolInitializes ==
    [][(parsed' \in Records /\ last_pool = None /\ parsed'.pool # "unknown") =>
          /\ last_pool' = parsed'.pool
          /\ ~\E e \in Events_next : IsCall(e, "failover")]_vars

\* The initial pool is detected by a record that follows records of pool
\* 'unknown' (they are in the window).
C4_Witness ==
    /\ last_pool \in Pools
    /\ \E e \in Events : e.kind = "initial_pool" /\ e.to = last_pool
    /\ Len(request_window) >= 2

\* ---- C5 ----
\* C5: with last_pool P, a record of pool Q, Q neither P nor 'unknown', hands
\* exactly one failover alert to send_slack_alert, naming P and Q, and sets
\* last_pool to Q; a record of pool P hands no failover alert and leaves
\* last_pool P.
C5_Failover ==
    [][(parsed' \in Records /\ last_pool # None /\ parsed'.pool # "unknown") =>
          LET calls == {e \in Events_next : IsCall(e, "failover")} IN
          /\ last_pool' = parsed'.pool
          /\ parsed'.pool # last_pool =>
                /\ Cardinality(calls) = 1
                /\ \A e \in calls : e.from = last_pool /\ e.to = parsed'.pool
          /\ parsed'.pool = last_pool => calls = {}]_vars

C5_Witness ==
    /\ last_pool = "green"
    /\ \E e \in Events : IsCall(e, "failover") /\ e.from = "blue" /\ e.to = "green"

C9_MaintenanceSuppressesAll ==
    MAINTENANCE_MODE =>
        /\ \A c \in AlertTypes : last_alert_times[c] = NoTime
        /\ \A c \in AlertTypes : \A e \in Events :
              IsCall(e, c) => e.kind = "suppressed"

\* Both alerts of one line suppressed, later than any cooldown would last.
C9_Witness ==
    /\ MAINTENANCE_MODE
    /\ SLACK_WEBHOOK_URL
    /\ now > ALERT_COOLDOWN_SEC
    /\ \A c \in AlertTypes : \E e \in Events : IsCall(e, c) /\ e.kind = "suppressed"

\* ---- C10 ----
\* C10: whatever the posts of a line do, the loop goes on, the record is
\* appended to the window and last_pool follows the pool of the record: the
\* window and last_pool after a line depend on the record alone, not on the
\* outcome of the posts.
C10_PostOutcomeLeavesState ==
    [][parsed' \in Records =>
          /\ running'
          /\ request_window' = append(request_window, parsed'.is_5xx)
          /\ last_pool' = IF parsed'.pool = "unknown" THEN last_pool ELSE parsed'.pool]_vars

\* After a failed failover post: the loop is alive, the record is in the
\* window and last_pool is the new pool.
C10_Witness ==
    /\ running
    /\ parsed \in Records
    /\ Len(request_window) >= 1
    /\ request_window[Len(request_window)] = parsed.is_5xx
    /\ \E e \in Events :
          e.type = "failover" /\ e.kind = "failed" /\ e.to = last_pool /\ e.to = parsed.pool

\* ---- C11 ----
\* The number of 5xx records in a window, counted one by one.
RECURSIVE Errors(_)
Errors(window) ==
    IF window = <<>> THEN 0
    ELSE (IF Head(window) THEN 1 ELSE 0) + Errors(Tail(window))

\* C11: a line hands a failover alert to send_slack_alert only when its pool
\* and last_pool are two different known pools, and an error_rate alert only
\* when the push leaves a full window with a rate above the threshold; a line
\* that does neither, fails to parse, or no line at all hands over nothing.
\* When one line does both, the failover alert is handed over first, before
\* the record is pushed.
C11_AlertsOnlyOnConditions ==
    [][LET calls == {i \in 1..Len(out') : out'[i].kind \in {"suppressed", "cooldown", "sent", "failed"}}
       IN
       /\ parsed' \notin Records => calls = {}
       /\ parsed' \in Records =>
            /\ \A i \in calls : out'[i].type \in AlertTypes
            /\ \A i \in calls : out'[i].type = "failover" =>
                  /\ last_pool \in Pools
                  /\ parsed'.pool \in Pools
                  /\ parsed'.pool # last_pool
            /\ \A i \in calls : out'[i].type = "error_rate" =>
                  /\ Len(request_window') = WINDOW_SIZE
                  /\ Errors(request_window') * 100 > ERROR_RATE_THRESHOLD * WINDOW_SIZE
            /\ \A i, j \in calls :
                  (out'[i].type = "failover" /\ out'[j].type = "error_rate") =>
                      i < j /\ out'[i].at <= out'[j].at]_vars

\* ---- C12 ----
\* C12: a line whose parse fails changes neither last_pool nor the window
\* nor last_alert_times, hands no alert to send_slack_alert and leaves the
\* loop running.
C12_ParseFailureDiscarded ==
    [][parsed' = NoRecord =>
          /\ last_pool' = last_pool
          /\ request_window' = request_window
          /\ last_alert_times' = last_alert_times
          /\ \A e \in Events_next : e.kind = "parse_error"
          /\ running']_vars

\* A failed parse in the middle of the stream: a pool is tracked, the window
\* holds records and an alert was sent before.
C12_Witness ==
    /\ parsed = NoRecord
    /\ running
    /\ last_pool \in Pools
    /\ Len(request_window) >= 1
    /\ \E c \in AlertTypes : last_alert_times[c] # NoTime

\* ---- C13 ----
\* C13: an alert is found in cooldown only on account of a time recorded for
\* its own type, less than ALERT_COOLDOWN_SEC old; a sent alert records a time
\* for its own type and leaves the time of the other type alone.
C13_CooldownPerType ==
    [][/\ \A f \in Events_next :
            f.kind = "cooldown" =>
                /\ last_alert_times[f.type] # NoTime
                /\ f.at - last_alert_times[f.type] < ALERT_COOLDOWN_SEC
       /\ \A c \in AlertTypes, c2 \in AlertTypes :
            (/\ c # c2
             /\ \E f \in Events_next : f.type = c /\ f.kind = "sent"
             /\ ~\E f \in Events_next : f.type = c2 /\ f.kind = "sent") =>
                /\ last_alert_times'[c] # NoTime
                /\ last_alert_times'[c2] = last_alert_times[c2]]_vars

\* An error_rate alert is posted while the failover alert is in its cooldown.
C13_Witness ==
    /\ last_alert_times["failover"] # NoTime
    /\ \E e \in Events :
          /\ IsPost(e, "error_rate")
          /\ e.at >= last_alert_times["failover"]
          /\ e.at - last_alert_times["failover"] < ALERT_COOLDOWN_SEC

\* ---- C17 ----
\* C17: whatever send_slack_alert does with a failover alert (suppressed, in
\* cooldown, sent, failed), last_pool is the new pool afterwards, and a next
\* record of that pool hands over no failover alert.
C17_PoolFollowsEveryFailover ==
    [][/\ \A f \in Events_next : IsCall(f, "failover") => last_pool' = f.to
       /\ \A e \in Events :
            (IsCall(e, "failover") /\ parsed' \in Records /\ parsed'.pool = e.to) =>
                ~\E f \in Events_next : IsCall(f, "failover")]_vars

\* A failover alert found in cooldown, and last_pool is the new pool.
C17_Witness ==
    \E e \in Events :
        /\ e.type = "failover"
        /\ e.kind = "cooldown"
        /\ e.from # e.to
        /\ last_pool = e.to

\* ---- C18 ----
\* C18: a call that is suppressed (maintenance, no webhook) or found in
\* cooldown leaves the time of its alert type in last_alert_times unchanged,
\* and a line all of whose calls end so leaves last_alert_times unchanged.
C18_SuppressedLeavesTimes ==
    [][/\ \A f \in Events_next :
            f.kind \in {"suppressed", "cooldown"} =>
                last_alert_times'[f.type] = last_alert_times[f.type]
       /\ (\A f \in Events_next : f.kind \notin {"sent", "failed"}) =>
                last_alert_times' = last_alert_times]_vars

\* An alert found in cooldown later than the time recorded for its type:
\* the recorded time is still that of the last sent alert.
C18_Witness ==
    \E e \in Events :
        /\ e.kind = "cooldown"
        /\ last_alert_times[e.type] # NoTime
        /\ last_alert_times[e.type] < e.at

\* ---- C19 ----
\* C19: last_pool is the pool of the last record whose pool is not 'unknown',
\* and None as long as there was none: a record of a known pool sets it,
\* every other step of the loop leaves it alone.
C19_LastKnownPool ==
    /\ []((parsed \in Records /\ parsed.pool # "unknown") => last_pool = parsed.pool)
    /\ []((last_pool = None) => (parsed \notin Records \/ parsed.pool = "unknown"))
    /\ [][(parsed' \notin Records \/ parsed'.pool = "unknown") => last_pool' = last_pool]_vars

\* Pool 'green' is tracked; a record of pool 'unknown' follows and last_pool
\* is still 'green'.
C19_Witness ==
    /\ parsed \in Records
    /\ parsed.pool = "unknown"
    /\ last_pool = "green"
    /\ Len(request_window) >= 3

\* ---- C14 ----
\* |x - 100 * count / len| is at most two units of the last place of the
\* double x.
float_near(x, count, len) ==
    IF x = Zero THEN count = 0
    ELSE LET xn == TimesLimbs(Limbs(x.m), len, 0)
             r  == Limbs(ToBits(100 * count) \o Zeros(0 - x.e)) IN
         /\ ~Greater(Numeral(xn), Numeral(TimesLimbs(r, 1, 2 * len)))
         /\ ~Greater(Numeral(r), Numeral(TimesLimbs(xn, 1, 2 * len)))

rate_near ==
    [len \in 1..(MaxWindowSize + 1) |->
        [count \in 0..len |-> float_near(error_rate(count, len), count, len)]]

\* C14: a push appends the record and, on a full window, evicts the oldest
\* one and no other; on a full window the error count the rate is computed
\* from is the number of errors among the WINDOW_SIZE records pushed last, and
\* the rate is 100 * error_count / WINDOW_SIZE as far as a double can tell.
C14_FifoErrorCount ==
    [][parsed' \in Records =>
          /\ request_window' =
                (IF Len(request_window) = WINDOW_SIZE
                 THEN Tail(request_window) ELSE request_window)
                    \o <<parsed'.is_5xx>>
          /\ Len(request_window') = WINDOW_SIZE =>
                /\ error_count(request_window') = Errors(request_window')
                /\ rate_near[WINDOW_SIZE][error_count(request_window')]]_vars

\* Window size 3 after the pushes false, false, true, true: the first record
\* is gone, 2 of 3 records are errors and the alert is attempted.
C14_Witness ==
    /\ WINDOW_SIZE = 3
    /\ request_window = <<FALSE, TRUE, TRUE>>
    /\ error_count(request_window) = 2
    /\ \E e \in Events : IsCall(e, "error_rate")

\* ---- C15 ----
\* Deployments with larger windows, to which a burst of 5xx responses is
\* logged for pool blue, followed by 200 responses.
RateLine ==
    \E line \in {l \in Lines : /\ l.pool = "blue"
                                /\ l.upstream_status = 0
                                /\ l.request_time_ok} :
        /\ line.status >= 500 => Errors(request_window) = Len(request_window)
        /\ \E o1 \in FailoverOutcomes(line) :
             \E o2 \in ErrorRateOutcomes(line, o1) :
               ProcessLine(line, o1[1], o1[2], o2[1], o2[2])

RateInit ==
    /\ SLACK_WEBHOOK_URL \in BOOLEAN
    /\ ERROR_RATE_THRESHOLD \in RateThresholds
    /\ WINDOW_SIZE \in {n \in 1..MaxRateWindow : n % 10 = 0}
    /\ ALERT_COOLDOWN_SEC \in 0..MaxCooldown
    /\ MAINTENANCE_MODE \in BOOLEAN
    /\ last_pool = None
    /\ request_window = <<>>
    /\ last_alert_times = [a \in AlertTypes |-> NoTime]
    /\ now = 0
    /\ parsed = NoLine
    /\ out = <<>>
    /\ running = TRUE

RateNext == RateLine \/ Sleep

RateSpec == RateInit /\ [][RateNext]_vars

\* C15: a push is followed by an error_rate alert candidate exactly when it
\* leaves the window full with 100 * errors / WINDOW_SIZE strictly greater
\* than the threshold; a rate equal to the threshold gives no candidate.
C15_CandidateIffAbove ==
    [][parsed' \in Records =>
          ((\E e \in Events_next : IsCall(e, "error_rate"))
              <=> /\ Len(request_window') = WINDOW_SIZE
                  /\ Errors(request_window') * 100
                        > ERROR_RATE_THRESHOLD * WINDOW_SIZE)]_vars

\* ---- C16 ----
\* The runs C16 is about: a webhook is set, maintenance is off, every post
\* succeeds and the records that arrive keep the rate of a full window above
\* the threshold.  The loop of tail_log_file never blocks: it sleeps when
\* there is no line, so the clock moves on (weak fairness of Sleep); that
\* records keep arriving is the hypothesis of the claim on the log.
HighRateLine ==
    \E line \in {l \in Lines : l.upstream_status = 0 /\ l.request_time_ok} :
        /\ parsed' = parse_log_line(line)
        /\ \E d1, d2 \in 0..MaxDelay : ProcessLine(line, TRUE, d1, TRUE, d2)
        /\ Len(request_window') = WINDOW_SIZE =>
              Errors(request_window') * 100 > ERROR_RATE_THRESHOLD * WINDOW_SIZE

LiveInit == Init /\ SLACK_WEBHOOK_URL /\ ~MAINTENANCE_MODE

LiveNext == HighRateLine \/ Sleep

LiveSpec ==
    /\ LiveInit
    /\ [][LiveNext]_vars
    /\ WF_vars(Sleep)
    /\ []<><<HighRateLine>>_vars

\* C16: in these runs, once an error_rate alert was sent and recorded at time
\* t, another error_rate alert is sent at some time t + ALERT_COOLDOWN_SEC or
\* later (as far as the clock of the model reaches).
C16_Renotified ==
    \A t \in 0..MaxTime :
        (last_alert_times["error_rate"] = t /\ t + ALERT_COOLDOWN_SEC <= MaxTime)
            ~> (\E e \in Events : /\ e.type = "error_rate"
                                  /\ e.kind = "sent"
                                  /\ e.at >= t + ALERT_COOLDOWN_SEC)

\* An error_rate alert sent when the longest cooldown since an earlier one
\* (in a window of size 1 the first record already sends one) has elapsed.
C16_Witness ==
    /\ ALERT_COOLDOWN_SEC = MaxCooldown
    /\ \E e \in Events : /\ e.type = "error_rate"
                          /\ e.kind = "sent"
                          /\ e.at >= ALERT_COOLDOWN_SEC
                          /\ e.at > 0
====
